---- MODULE Spec2Model ----
(***************************************************************************)
(* A model of webdriver_manager: the resolution of a chromedriver build    *)
(* against the known-good-versions manifest (drivers/chromedriver.rs), the *)
(* download / unzip / search installer (downloader.rs) and the driver      *)
(* verification (ChromeDriver::verify_driver).                             *)
(*                                                                         *)
(* Strings that the code inspects (versions, process output) are sequences *)
(* of characters or bytes; file names and platform identifiers, which the  *)
(* code only compares for equality, are TLA+ strings.                      *)
(***************************************************************************)
EXTENDS Integers, Sequences, FiniteSets, TLC

VARIABLES
    os,           \* std::env::consts::OS of the build
    arch,         \* std::env::consts::ARCH of the build
    pc,           \* position of the call in progress
    op,           \* the public operation that was called
    arg,          \* its version argument (browser_version / driver_version)
    httpLog,      \* the HTTP GET requests issued so far, in order
    response,     \* what the manifest endpoint answered
    resolved,     \* what get_chromedriver_download_url returned
    result,       \* what the public operation returned
    fs,           \* the filesystem: path -> node, for the paths that exist
    installPath,  \* install_path of the download_and_unzip call
    tempPath,     \* the TempDir the call owns, <<>> while it owns none
    task,         \* the spawn_blocking task of unzip_file: what its JoinHandle holds
    driverPath,   \* driver_path of the verify_driver call
    proc,         \* what running the driver gave
    calls,        \* the download_and_unzip calls that run concurrently, by id
    disk0         \* the disk before the concurrent calls

resolveVars == <<op, arg, response, resolved>>
installVars == <<fs, installPath, tempPath, task>>
verifyVars == <<driverPath, proc>>
concurrentVars == <<calls, disk0>>

vars ==
    <<os, arch, pc, httpLog, result, resolveVars, installVars, verifyVars, concurrentVars>>

\* ------------------------------------------------------------------ bounds

\* most entries in the manifest the endpoint answers with
MaxManifest == 2
\* most entries in the archive the download gives
MaxEntries == 2
\* most pieces the output of the driver process is made of
MaxPieces == 2

\* ------------------------------------------------------------ Option/Result

None == [some |-> FALSE]
Some(x) == [some |-> TRUE, val |-> x]

Ok(x) == [tag |-> "Ok", val |-> x]
Err(e) == [tag |-> "Err", err |-> e]
NoResult == [tag |-> "none"]

\* ------------------------------------------------------------------ strings

Dot == "."

RECURSIVE SeqsUpTo(_, _)
SeqsUpTo(S, n) ==
    IF n = 0 THEN {<<>>}
    ELSE LET r == SeqsUpTo(S, n - 1)
         IN  r \cup {Append(s, c) : s \in {x \in r : Len(x) = n - 1}, c \in S}

\* "138.0.7204.158", the version of the unit test
Version138 == <<"1", "3", "8", Dot, "0", Dot, "7", "2", "0", "4", Dot, "1", "5", "8">>

\* "138.0.7204"
Prefix138 == <<"1", "3", "8", Dot, "0", Dot, "7", "2", "0", "4">>

\* "138.0.7204.157", an older patch of the same line
Version138p == <<"1", "3", "8", Dot, "0", Dot, "7", "2", "0", "4", Dot, "1", "5", "7">>

V1_1 == <<"1", Dot, "1">>
V1_2 == <<"1", Dot, "2">>
V11_1 == <<"1", "1", Dot, "1">>

\* the version arguments the operations are called with: "", "1", "1.",
\* ".1", "1.1", "1.2", "2.1", "11.1", "1.1.1", "138.0.7204.158"
BrowserVersions ==
    { <<>>, <<"1">>, <<"1", Dot>>, <<Dot, "1">>, V1_1, V1_2, <<"2", Dot, "1">>,
      V11_1, <<"1", Dot, "1", Dot, "1">>, Version138 }

\* str::starts_with
starts_with(s, p) == Len(p) <= Len(s) /\ SubSeq(s, 1, Len(p)) = p

\* position of the last '.' of s, 0 when there is none
LastDot(s) ==
    IF \E i \in 1..Len(s) : s[i] = Dot
    THEN CHOOSE i \in 1..Len(s) : s[i] = Dot /\ \A j \in (i + 1)..Len(s) : s[j] # Dot
    ELSE 0

\* str::rsplitn(2, '.'): at most two pieces, split at the last '.', the
\* rightmost piece first
rsplitn2(s) ==
    LET d == LastDot(s)
    IN  IF d = 0 THEN <<s>>
        ELSE <<SubSeq(s, d + 1, Len(s)), SubSeq(s, 1, d - 1)>>

\* Iterator::nth (0-based)
nth(it, n) == IF n + 1 <= Len(it) THEN Some(it[n + 1]) ELSE None

\* Iterator::last
last(it) == IF Len(it) = 0 THEN None ELSE Some(it[Len(it)])

\* Iterator::find, given the indices of the elements that satisfy the
\* predicate: the first of them
find(it, hits) ==
    IF hits = {} THEN None
    ELSE Some(it[CHOOSE i \in hits : \A j \in hits : i <= j])

\* ---------------------------------------------------------------- platform

OSes == {"windows", "macos", "linux"}
Arches == {"x86_64", "x86", "aarch64"}

\* a variant that takes every linux build for linux64
platform_wrong(o, a) ==
    IF o = "windows" /\ a = "x86_64" THEN Some("win64")
    ELSE IF o = "windows" /\ a = "x86" THEN Some("win32")
    ELSE IF o = "macos" /\ a = "x86_64" THEN Some("mac-x64")
    ELSE IF o = "macos" /\ a = "aarch64" THEN Some("mac-arm64")
    ELSE IF o = "linux" THEN Some("linux64")
    ELSE None

\* the platform identifier of Google's JSON endpoints
platform(o, a) ==
    IF o = "windows" /\ a = "x86_64" THEN Some("win64")
    ELSE IF o = "windows" /\ a = "x86" THEN Some("win32")
    ELSE IF o = "macos" /\ a = "x86_64" THEN Some("mac-x64")
    ELSE IF o = "macos" /\ a = "aarch64" THEN Some("mac-arm64")
    ELSE IF o = "linux" /\ a = "x86_64" THEN Some("linux64")
    ELSE None

\* ------------------------------------------------------------------- errors

UnsupportedPlatform(o, a) == [kind |-> "UnsupportedPlatform", os |-> o, arch |-> a]
BrowserVersionParsingError(output) ==
    [kind |-> "BrowserVersionParsingError", output |-> output]
DriverVersionNotFound(browser_version, p) ==
    [kind |-> "DriverVersionNotFound", browser_version |-> browser_version, platform |-> p]
DriverUrlNotFound(driver_version, p) ==
    [kind |-> "DriverUrlNotFound", driver_version |-> driver_version, platform |-> p]

\* #[from] reqwest::Error: the only conversion `?` has for a reqwest::Error,
\* whatever the error is about ("transport", "status", "decode")
NetworkError(source) == [kind |-> "NetworkError", source |-> source]

\* ----------------------------------------------------------------- manifest

CHROMEDRIVER_URLS_ENDPOINT == "known-good-versions-with-downloads.json"

\* struct Download; the url names the entry and the position it is listed at
Download(p, v, n) == [platform |-> p, url |-> [of |-> v, platform |-> p, n |-> n]]

\* the "downloads" value of an entry of version v, as it is on the wire:
\* the key absent, the object without "chromedriver", or a list of downloads
NoDownloads == None
NoChromedriver == Some([chromedriver |-> None])
EmptyList == Some([chromedriver |-> Some(<<>>)])
TwoPlatforms(v) ==
    Some([chromedriver |-> Some(<<Download("linux64", v, 1), Download("win64", v, 2)>>)])
Doubled(v) ==
    Some([chromedriver |-> Some(<<Download("linux64", v, 1), Download("linux64", v, 2)>>)])

WireEntry(v, d) == [version |-> v, downloads |-> d]

\* the entries manifests are made of
WireEntries ==
    { WireEntry(V1_1, d) :
        d \in {NoDownloads, NoChromedriver, EmptyList, TwoPlatforms(V1_1), Doubled(V1_1)} }
    \cup { WireEntry(V1_2, NoChromedriver), WireEntry(V1_2, TwoPlatforms(V1_2)),
           WireEntry(V11_1, TwoPlatforms(V11_1)),
           WireEntry(Version138p, TwoPlatforms(Version138p)) }

\* every order is drawn: the code does not check that the list is sorted
WireManifests == SeqsUpTo(WireEntries, MaxManifest)

\* what the GET of the endpoint can give: no response, or a body that is
\* not JSON, or a JSON document of the manifest's shape
Responses ==
    {[transport |-> "failed"], [transport |-> "ok", json |-> "malformed"]}
    \cup {[transport |-> "ok", json |-> "ok", versions |-> m] : m \in WireManifests}

\* Response::json::<KnownGoodVersions>() as derived by serde: Version.downloads
\* is a required field, VersionDownloads.chromedriver an optional one. The
\* error is a reqwest::Error of the decode kind.
json(resp) ==
    IF resp.json # "ok" THEN Err("decode")
    ELSE IF \E i \in 1..Len(resp.versions) : ~resp.versions[i].downloads.some
         THEN Err("decode")
         ELSE Ok([versions |->
                    [i \in 1..Len(resp.versions) |->
                        [version |-> resp.versions[i].version,
                         downloads |-> resp.versions[i].downloads.val]]])

\* --------------------------------------------------------------- resolution

\* a variant that splits at the first '.' instead (str::splitn)
major_browser_version_first_dot(browser_version) ==
    IF \E i \in 1..Len(browser_version) : browser_version[i] = Dot
    THEN Some(SubSeq(browser_version, 1,
                (CHOOSE i \in 1..Len(browser_version) :
                    browser_version[i] = Dot
                    /\ \A j \in 1..(i - 1) : browser_version[j] # Dot) - 1))
    ELSE None

\* browser_version.rsplitn(2, '.').nth(1)
major_browser_version(browser_version) == nth(rsplitn2(browser_version), 1)

\* a variant that takes the first match (Iterator::next) instead of the last
best_match_first(versions, major) ==
    LET matches == SelectSeq(versions, LAMBDA v : starts_with(v.version, major))
    IN  IF matches = <<>> THEN None ELSE Some(matches[1])

\* response.versions.iter().filter(starts_with major_browser_version).last()
best_match(versions, major) ==
    last(SelectSeq(versions, LAMBDA v : starts_with(v.version, major)))

\* best_match.downloads.chromedriver ... .iter().find(|d| d.platform == platform)
download(best, p) ==
    IF ~best.downloads.chromedriver.some THEN None
    ELSE LET list == best.downloads.chromedriver.val
         IN  find(list, {i \in 1..Len(list) : list[i].platform = p})

\* get_chromedriver_download_url from the answer of the GET onwards
resolve_response(browser_version, p, resp) ==
    IF resp.transport # "ok" THEN Err(NetworkError("transport"))
    ELSE LET parsed == json(resp) IN
    IF parsed.tag = "Err" THEN Err(NetworkError(parsed.err))
    ELSE LET major == major_browser_version(browser_version) IN
    IF ~major.some THEN Err(BrowserVersionParsingError(browser_version))
    ELSE LET best == best_match(parsed.val.versions, major.val) IN
    IF ~best.some THEN Err(DriverVersionNotFound(browser_version, p))
    ELSE LET d == download(best.val, p) IN
    IF ~d.some THEN Err(DriverUrlNotFound(best.val.version, p))
    ELSE Ok([driver_version |-> best.val.version, url |-> d.val.url])

\* what the caller of get_chromedriver_download_url makes of its result
wrap(o, r) ==
    IF r.tag = "Err" THEN r
    ELSE IF o = "get_driver_version" THEN Ok(r.val.driver_version)
    ELSE Ok(r.val.url)

\* get_chromedriver_download_url up to its first await: the platform match,
\* then the GET of the endpoint
get_chromedriver_download_url(o, version) ==
    /\ pc = "idle"
    /\ op' = o
    /\ arg' = version
    /\ response' = response
    /\ UNCHANGED <<os, arch, concurrentVars, installVars, verifyVars>>
    /\ IF platform(os, arch).some
       THEN /\ httpLog' = Append(httpLog, CHROMEDRIVER_URLS_ENDPOINT)
            /\ pc' = "await_manifest"
            /\ UNCHANGED <<resolved, result>>
       ELSE /\ resolved' = Err(UnsupportedPlatform(os, arch))
            /\ result' = wrap(o, resolved')
            /\ pc' = "done"
            /\ UNCHANGED httpLog

\* ChromeDriver::get_driver_version
get_driver_version(browser_version) ==
    get_chromedriver_download_url("get_driver_version", browser_version)

\* ChromeDriver::get_download_url
get_download_url(driver_version) ==
    get_chromedriver_download_url("get_download_url", driver_version)

\* the endpoint answers and get_chromedriver_download_url runs to its return
manifest_response(resp) ==
    /\ pc = "await_manifest"
    /\ response' = resp
    /\ resolved' = resolve_response(arg, platform(os, arch).val, resp)
    /\ result' = wrap(op, resolved')
    /\ pc' = "done"
    /\ UNCHANGED <<os, arch, concurrentVars, op, arg, httpLog, installVars, verifyVars>>

\* the variables of the installer, while no install is in progress
NoInstall ==
    /\ fs = [q \in {} |-> None]
    /\ installPath = <<>>
    /\ tempPath = <<>>
    /\ task = NoResult

\* the variables of the verification, while none is in progress
NoVerify ==
    /\ driverPath = <<>>
    /\ proc = [spawned |-> FALSE]

\* the variables of the concurrent calls, while there are none
NoCalls ==
    /\ calls = <<>>
    /\ disk0 = [q \in {} |-> None]

\* the variables of the resolution, while none is in progress
NoResolve ==
    /\ op = "none"
    /\ arg = <<>>
    /\ response = [transport |-> "none"]
    /\ resolved = NoResult

InitResolve ==
    /\ os \in OSes
    /\ arch \in Arches
    /\ pc = "idle"
    /\ httpLog = <<>>
    /\ result = NoResult
    /\ NoResolve
    /\ NoInstall
    /\ NoVerify
    /\ NoCalls

NextResolve ==
    \/ \E v \in BrowserVersions : get_driver_version(v)
    \/ \E v \in BrowserVersions : get_download_url(v)
    \/ \E r \in Responses : manifest_response(r)

SpecResolve == InitResolve /\ [][NextResolve]_vars

\* --------------------------------------------------------------- filesystem

\* A path is the sequence of its components from the root; the root is <<>>
\* and always a directory. The disk is keyed by paths without ".."; a path
\* the code builds may have ".." components, which the system resolves when
\* the path is used. A node is a file or a directory, with the data written
\* to it and its permission bits.

\* what a file holds: bytes that are no archive, known by a label, or a zip
\* archive with its entries
Bytes(label) == [zip |-> FALSE, label |-> label, entries |-> <<>>]
ZipBytes(entries) == [zip |-> TRUE, label |-> "zip", entries |-> entries]

Dir == [kind |-> "dir", data |-> Bytes(""), mode |-> "default"]
File(data) == [kind |-> "file", data |-> data, mode |-> "default"]

\* Path::is_dir, of a path without ".."
is_dir(f, q) == q = <<>> \/ (q \in DOMAIN f /\ f[q].kind = "dir")

\* Path::parent
parent(q) == IF q = <<>> THEN None ELSE Some(SubSeq(q, 1, Len(q) - 1))

\* Path::file_name
file_name(q) == IF q = <<>> THEN None ELSE Some(q[Len(q)])

\* where the system lands when it follows the components of rest from the
\* directory cur: ".." leads to the parent, and only out of a directory that
\* exists
RECURSIVE resolve(_, _, _)
resolve(f, cur, rest) ==
    IF rest = <<>> THEN Some(cur)
    ELSE IF Head(rest) = ".."
         THEN IF is_dir(f, cur)
              THEN resolve(f, IF cur = <<>> THEN cur ELSE parent(cur).val, Tail(rest))
              ELSE None
         ELSE resolve(f, Append(cur, Head(rest)), Tail(rest))

\* Path::exists
exists(f, q) ==
    LET c == resolve(f, <<>>, q)
    IN  c.some /\ (c.val = <<>> \/ c.val \in DOMAIN f)

\* Path::starts_with: d is q or an ancestor of q
path_starts_with(q, d) == Len(d) <= Len(q) /\ SubSeq(q, 1, Len(d)) = d

\* Path::join of a relative path
join(d, rel) == d \o rel

put(f, q, node) == [x \in DOMAIN f \cup {q} |-> IF x = q THEN node ELSE f[x]]

\* std::fs::create_dir_all from the directory cur on: the components of rest
\* one after the other, each created when it is missing; fails at a component
\* that is a file
RECURSIVE create_dirs(_, _, _)
create_dirs(f, cur, rest) ==
    IF rest = <<>> THEN [ok |-> TRUE, fs |-> f]
    ELSE IF Head(rest) = ".."
         THEN create_dirs(f, IF cur = <<>> THEN cur ELSE parent(cur).val, Tail(rest))
         ELSE LET next == Append(cur, Head(rest))
              IN  IF next \in DOMAIN f /\ f[next].kind # "dir" THEN [ok |-> FALSE, fs |-> f]
                  ELSE create_dirs(IF next \in DOMAIN f THEN f ELSE put(f, next, Dir),
                                   next, Tail(rest))

\* std::fs::create_dir_all: creates the missing directories of q; fails when
\* a component of q is a file
create_dir_all(f, q) == create_dirs(f, <<>>, q)

\* File::create and the write of the data: fails when the parent is no
\* directory or q is a directory; truncates an existing file
create_file(f, q, data) ==
    LET c == resolve(f, <<>>, q)
    IN  IF ~c.some \/ c.val = <<>> \/ ~is_dir(f, parent(c.val).val) \/ is_dir(f, c.val)
        THEN [ok |-> FALSE, fs |-> f]
        ELSE [ok |-> TRUE,
              fs |-> put(f, c.val, IF c.val \in DOMAIN f
                                   THEN [f[c.val] EXCEPT !.data = data]
                                   ELSE File(data))]

\* std::fs::set_permissions
set_permissions(f, q, mode) ==
    LET c == resolve(f, <<>>, q)
    IN  IF c.some /\ c.val \in DOMAIN f THEN [f EXCEPT ![c.val].mode = mode] ELSE f

\* the removal of a directory and everything under it (the drop of a TempDir)
remove_dir_all(f, d) == [x \in {y \in DOMAIN f : ~path_starts_with(y, d)} |-> f[x]]

\* ------------------------------------------------------------------ archive

\* ChromeDriver::get_driver_name
get_driver_name == "chromedriver"

\* find_driver_executable: driver_exe_name
driver_exe_name(driver_name, o) ==
    IF o = "windows" THEN driver_name \o ".exe" ELSE driver_name

\* An entry of a zip archive: its name as components (".." among them), whether
\* the name ends with '/', whether it starts with '/', the unix mode it
\* records, and its data.
ZipEntry(name, isDir, mode) ==
    [name |-> name, dir |-> isDir, absolute |-> FALSE, mode |-> mode, data |-> Bytes("new")]

\* a file entry whose name starts with '/'
AbsoluteEntry(name) == [ZipEntry(name, FALSE, None) EXCEPT !.absolute = TRUE]

\* the entries archives are made of, given the name of the executable: the
\* executable at the top, a directory, the executable in that directory, a
\* directory of the executable's name, another file, a file above the
\* target ("../chromedriver"), a file of an absolute name ("/chromedriver"),
\* and a file whose name has a ".." that stays below the target
\* ("sub/../LICENSE"). No entry names the TempDir of the call: its name is
\* random.
ZipEntries(exe) ==
    { ZipEntry(<<exe>>, FALSE, Some("rwxr-xr-x")),
      ZipEntry(<<"sub">>, TRUE, None),
      ZipEntry(<<"sub", exe>>, FALSE, Some("rwxr-xr-x")),
      ZipEntry(<<exe>>, TRUE, None),
      ZipEntry(<<"LICENSE">>, FALSE, None),
      ZipEntry(<<"..", exe>>, FALSE, None),
      AbsoluteEntry(<<exe>>),
      ZipEntry(<<"sub", "..", "LICENSE">>, FALSE, None) }

Archives(exe) == SeqsUpTo(ZipEntries(exe), MaxEntries)

\* a variant that takes every name as it is
enclosed_name_unchecked(entry) == Some(entry.name)

\* ZipFile::enclosed_name: None for a name that is absolute or climbs above
\* its start
RECURSIVE escapes(_, _)
escapes(name, depth) ==
    IF name = <<>> THEN FALSE
    ELSE IF Head(name) = ".." THEN depth = 0 \/ escapes(Tail(name), depth - 1)
    ELSE escapes(Tail(name), depth + 1)

enclosed_name(entry) ==
    IF entry.absolute \/ escapes(entry.name, 0) THEN None ELSE Some(entry.name)

\* the one element of a singleton
the(S) == CHOOSE x \in S : TRUE

\* the file branch of the loop body: the parent directories, then the file
extract_file(f, entry, outpath) ==
    IF exists(f, parent(outpath).val) THEN create_file(f, outpath, entry.data)
    ELSE the({ IF dirs.ok THEN create_file(dirs.fs, outpath, entry.data) ELSE dirs :
               dirs \in {create_dir_all(f, parent(outpath).val)} })

\* the body of the loop of unzip_file for one entry, on a unix build or not
extract_entry(f, entry, extract_to, unix) ==
    IF ~enclosed_name(entry).some THEN [ok |-> TRUE, fs |-> f]
    ELSE the({ IF made.ok /\ unix /\ entry.mode.some
               THEN [ok |-> TRUE,
                     fs |-> set_permissions(made.fs, join(extract_to, entry.name),
                                            entry.mode.val)]
               ELSE made :
               made \in { IF entry.dir
                          THEN create_dir_all(f, join(extract_to, enclosed_name(entry).val))
                          ELSE extract_file(f, entry,
                                            join(extract_to, enclosed_name(entry).val)) } })

IoError(path) == [kind |-> "IoError", path |-> path]
ZipError(path) == [kind |-> "ZipError", path |-> path]
VerificationError(msg) == [kind |-> "VerificationError", msg |-> msg]

\* the loop of unzip_file from entry i on. fault is what goes wrong by
\* itself at entry fault.at (0: before the first entry): a panic, or an error
\* of the archive (by_index), or an error of the disk, which an entry that is
\* skipped cannot meet.
RECURSIVE extract_from(_, _, _, _, _, _, _)
extract_from(f, archive, i, extract_to, zip_path, unix, fault) ==
    IF i > Len(archive) THEN [fs |-> f, join |-> Ok(Ok("unit"))]
    ELSE IF fault.at = i /\ fault.kind = "panic" THEN [fs |-> f, join |-> Err("JoinError")]
    ELSE IF fault.at = i /\ fault.kind = "zip"
         THEN [fs |-> f, join |-> Ok(Err(ZipError(zip_path)))]
    ELSE IF fault.at = i /\ fault.kind = "io" /\ enclosed_name(archive[i]).some
         THEN [fs |-> f, join |-> Ok(Err(IoError(join(extract_to, archive[i].name))))]
    ELSE the({ IF ~r.ok
               THEN [fs |-> r.fs,
                     join |-> Ok(Err(IoError(join(extract_to, archive[i].name))))]
               ELSE extract_from(r.fs, archive, i + 1, extract_to, zip_path, unix, fault) :
               r \in {extract_entry(f, archive[i], extract_to, unix)} })

\* the closure unzip_file hands to spawn_blocking: what it leaves on the disk
\* and in its JoinHandle
blocking_task(f, zip_path, extract_to, unix, fault) ==
    IF fault.at = 0 /\ fault.kind = "panic" THEN [fs |-> f, join |-> Err("JoinError")]
    ELSE IF ~(zip_path \in DOMAIN f) \/ (fault.at = 0 /\ fault.kind = "io")
         THEN [fs |-> f, join |-> Ok(Err(IoError(zip_path)))]
    ELSE IF ~f[zip_path].data.zip \/ (fault.at = 0 /\ fault.kind = "zip")
         THEN [fs |-> f, join |-> Ok(Err(ZipError(zip_path)))]
    ELSE the({ IF ~made.ok THEN [fs |-> f, join |-> Ok(Err(IoError(extract_to)))]
               ELSE extract_from(made.fs, f[zip_path].data.entries, 1, extract_to,
                                 zip_path, unix, fault) :
               made \in {create_dir_all(f, extract_to)} })

\* a variant that takes a JoinError for success (unwrap_or(Ok(())))
unwrap_or_ok(joined) == IF joined.tag = "Err" THEN Ok("unit") ELSE joined.val

\* .await.unwrap() of the JoinHandle: the task's own Result, or a panic of
\* the caller when the task panicked
unwrap(joined) == IF joined.tag = "Err" THEN [tag |-> "Panic"] ELSE joined.val

\* ------------------------------------------------------------------- search

\* WalkDir::new(search_path): the entries it yields, search_path first
WalkDir(f, search_path) == {q \in DOMAIN f \cup {<<>>} : path_starts_with(q, search_path)}

\* the entries find_driver_executable can return: a directory is yielded
\* before what it holds, and the entries of one directory in the order the
\* filesystem lists them, so the first entry of the name is any that has no
\* ancestor of the name in the walk
first_matches(f, search_path, exe) ==
    LET named == {q \in WalkDir(f, search_path) : file_name(q) = Some(exe)}
    IN  {q \in named : \A a \in named : a = q \/ ~path_starts_with(q, a)}

\* a variant that unpacks next to the downloaded archive and searches there
unzip_target_temp(install_path, temp_path) == temp_path

\* the directory download_and_unzip unpacks into and searches
unzip_target(install_path, temp_path) == install_path

\* ---------------------------------------------------------------- installer

TempRoot == <<"tmp">>
TempDir == <<"tmp", "webdriver-manager-r">>
archive_path == join(TempDir, <<"driver.zip">>)
ArchiveUrl == "https://storage.googleapis.com/chrome-for-testing-public/driver.zip"

Unix == os # "windows"
Exe == driver_exe_name(get_driver_name, os)

\* what the GET of the archive can give, and how far download_file gets
ArchiveResponses ==
    {[outcome |-> o, body |-> Bytes("")] :
        o \in {"transport", "status", "create", "body", "write"}}
    \cup {[outcome |-> "ok", body |-> b] :
            b \in {Bytes("garbage")} \cup {ZipBytes(a) : a \in Archives(Exe)}}

Faults(n) ==
    {[at |-> 0, kind |-> "none"]}
    \cup {[at |-> k, kind |-> x] : k \in 0..n, x \in {"panic", "io", "zip"}}

\* what the call leaves when it returns r: its TempDir is dropped
return(r, f) ==
    /\ result' = r
    /\ fs' = remove_dir_all(f, TempDir)
    /\ tempPath' = <<>>
    /\ pc' = "done"

\* download_and_unzip up to the GET of download_file
download_and_unzip(install_path, tempdir_ok) ==
    /\ pc = "idle"
    /\ installPath' = install_path
    /\ UNCHANGED <<os, arch, concurrentVars, resolveVars, verifyVars, task>>
    /\ IF ~tempdir_ok
       THEN /\ result' = Err(IoError(<<"temp">>))
            /\ pc' = "done"
            /\ UNCHANGED <<fs, tempPath, httpLog>>
       ELSE /\ tempPath' = TempDir
            /\ fs' = create_dir_all(put(fs, TempDir, Dir), parent(archive_path).val).fs
            /\ httpLog' = Append(httpLog, ArchiveUrl)
            /\ pc' = "await_archive"
            /\ UNCHANGED result

\* download_file from the answer of the GET, then unzip_file up to its await
archive_response(resp) ==
    /\ pc = "await_archive"
    /\ UNCHANGED <<os, arch, concurrentVars, resolveVars, verifyVars, installPath, httpLog>>
    /\ IF resp.outcome \in {"transport", "status"}
       THEN return(Err(NetworkError(resp.outcome)), fs) /\ UNCHANGED task
       ELSE IF resp.outcome = "create"
       THEN return(Err(IoError(archive_path)), fs) /\ UNCHANGED task
       ELSE IF resp.outcome = "body"
       THEN return(Err(NetworkError("body")), create_file(fs, archive_path, Bytes("")).fs)
            /\ UNCHANGED task
       ELSE IF resp.outcome = "write"
       THEN return(Err(IoError(archive_path)), create_file(fs, archive_path, Bytes("")).fs)
            /\ UNCHANGED task
       ELSE /\ fs' = create_file(fs, archive_path, resp.body).fs
            /\ task' = [tag |-> "spawned"]
            /\ pc' = "await_unzip"
            /\ UNCHANGED <<result, tempPath>>

\* the blocking task of unzip_file runs
unzip_task(fault) ==
    /\ pc = "await_unzip"
    /\ task.tag = "spawned"
    /\ fault.at <= Len(fs[archive_path].data.entries)
    /\ \E r \in {blocking_task(fs, archive_path, unzip_target(installPath, tempPath),
                                Unix, fault)} :
            fs' = r.fs /\ task' = r.join
    /\ UNCHANGED <<os, arch, concurrentVars, pc, httpLog, result, resolveVars, verifyVars,
                   installPath, tempPath>>

\* unzip_file resumes with the JoinHandle's value, and download_and_unzip
\* runs to its return through find_driver_executable
unzip_joined ==
    /\ pc = "await_unzip"
    /\ task.tag \in {"Ok", "Err"}
    /\ UNCHANGED <<os, arch, concurrentVars, resolveVars, verifyVars, installPath, httpLog, task>>
    /\ LET unzipped == unwrap(task)
           root == unzip_target(installPath, tempPath)
           matches == first_matches(fs, root, Exe)
       IN  IF unzipped.tag # "Ok" THEN return(unzipped, fs)
           ELSE IF ~exists(fs, root) THEN return(Err(IoError(root)), fs)
           ELSE IF matches = {} THEN return(Err(VerificationError("Could not find")), fs)
           ELSE \E found \in matches : return(Ok(found), fs)


\* the disk before the call: the temp root, and nothing at the install
\* paths, or an empty directory, or an executable of an earlier install (at
\* the top or in a directory), or a directory of the executable's name
MkFs(nodes) == [q \in {n[1] : n \in nodes} |-> (CHOOSE n \in nodes : n[1] = q)[2]]

InitialDisks(exe) ==
    { MkFs({<<TempRoot, Dir>>}),
      MkFs({<<TempRoot, Dir>>, <<TempRoot \o <<exe>>, File(Bytes("old"))>>}),
      MkFs({<<TempRoot, Dir>>, <<(<<"inst">>), Dir>>}),
      MkFs({<<TempRoot, Dir>>, <<(<<"inst">>), Dir>>, <<(<<"inst", exe>>), File(Bytes("old"))>>}),
      MkFs({<<TempRoot, Dir>>, <<(<<"inst">>), Dir>>, <<(<<"inst", "sub">>), Dir>>,
            <<(<<"inst", "sub", exe>>), File(Bytes("old"))>>}),
      MkFs({<<TempRoot, Dir>>, <<(<<"inst">>), Dir>>, <<(<<"inst", exe>>), Dir>>}) }

\* the install directories of the calls: a directory of its own, a directory
\* that has the name of the executable, and the temp root itself
InstallPaths(exe) == { <<"inst">>, <<"inst", exe>>, TempRoot }

InitInstall ==
    /\ os \in {"linux", "windows"}
    /\ arch = "x86_64"
    /\ pc = "idle"
    /\ httpLog = <<>>
    /\ result = NoResult
    /\ NoResolve
    /\ NoVerify
    /\ fs \in InitialDisks(Exe)
    /\ installPath = <<>>
    /\ tempPath = <<>>
    /\ task = NoResult
    /\ NoCalls

NextInstall ==
    \/ \E d \in InstallPaths(Exe), ok \in BOOLEAN : download_and_unzip(d, ok)
    \/ pc = "await_archive" /\ \E r \in ArchiveResponses : archive_response(r)
    \/ pc = "await_unzip" /\ \E fault \in Faults(MaxEntries) : unzip_task(fault)
    \/ unzip_joined

SpecInstall == InitInstall /\ [][NextInstall]_vars

\* ------------------------------------------------------------- verification

\* "ChromeDriver"
Marker == <<67, 104, 114, 111, 109, 101, 68, 114, 105, 118, 101, 114>>

\* the pieces the output of the driver is made of: "ChromeDriver",
\* "ChromeDrive", "r", "chromedriver", "e" with an acute accent in UTF-8, and
\* a byte that is no UTF-8
Pieces ==
    { Marker,
      <<67, 104, 114, 111, 109, 101, 68, 114, 105, 118, 101>>,
      <<114>>,
      <<99, 104, 114, 111, 109, 101, 100, 114, 105, 118, 101, 114>>,
      <<195, 169>>,
      <<255>> }

RECURSIVE Concat(_)
Concat(ps) == IF ps = <<>> THEN <<>> ELSE Head(ps) \o Concat(Tail(ps))

Outputs == {Concat(ps) : ps \in SeqsUpTo(Pieces, MaxPieces)}

IsContinuation(b) == 128 <= b /\ b <= 191

\* String::from_utf8: whether the bytes from position i on are UTF-8
RECURSIVE valid_utf8(_, _)
valid_utf8(bytes, i) ==
    IF i > Len(bytes) THEN TRUE
    ELSE LET b == bytes[i]
             cont(k) == i + k <= Len(bytes) /\ IsContinuation(bytes[i + k])
         IN  IF b <= 127 THEN valid_utf8(bytes, i + 1)
             ELSE IF 194 <= b /\ b <= 223 THEN cont(1) /\ valid_utf8(bytes, i + 2)
             ELSE IF 224 <= b /\ b <= 239
                  THEN /\ cont(1) /\ cont(2)
                       /\ (b = 224 => bytes[i + 1] >= 160)
                       /\ (b = 237 => bytes[i + 1] <= 159)
                       /\ valid_utf8(bytes, i + 3)
             ELSE IF 240 <= b /\ b <= 244
                  THEN /\ cont(1) /\ cont(2) /\ cont(3)
                       /\ (b = 240 => bytes[i + 1] >= 144)
                       /\ (b = 244 => bytes[i + 1] <= 143)
                       /\ valid_utf8(bytes, i + 4)
             ELSE FALSE

from_utf8(bytes) == IF valid_utf8(bytes, 1) THEN Ok(bytes) ELSE Err("FromUtf8Error")

\* str::contains
contains(text, pat) ==
    \E k \in 0..(Len(text) - Len(pat)) : SubSeq(text, k + 1, k + Len(pat)) = pat

\* ExitStatus::success
success(status) == status = "exit 0"

CommandExecutionError(command) == [kind |-> "CommandExecutionError", command |-> command]
CommandOutputParsingError(command) ==
    [kind |-> "CommandOutputParsingError", command |-> command]

\* a variant that looks at the output before the exit status
verify_output_first(driver_path, run) ==
    IF ~run.spawned THEN Err(CommandExecutionError(driver_path))
    ELSE LET stdout == from_utf8(run.stdout) IN
    IF stdout.tag = "Err" THEN Err(CommandOutputParsingError(driver_path))
    ELSE IF ~contains(stdout.val, Marker) THEN Err(VerificationError("Unexpected output"))
    ELSE IF ~success(run.status) THEN Err(VerificationError("non-zero status"))
    ELSE Ok("unit")

\* ChromeDriver::verify_driver, given what running driver_path --version gave
verify(driver_path, run) ==
    IF ~run.spawned THEN Err(CommandExecutionError(driver_path))
    ELSE IF ~success(run.status) THEN Err(VerificationError("non-zero status"))
    ELSE LET stdout == from_utf8(run.stdout) IN
    IF stdout.tag = "Err" THEN Err(CommandOutputParsingError(driver_path))
    ELSE IF ~contains(stdout.val, Marker) THEN Err(VerificationError("Unexpected output"))
    ELSE Ok("unit")

Runs ==
    {[spawned |-> FALSE]}
    \cup {[spawned |-> TRUE, status |-> st, stdout |-> out] :
            st \in {"exit 0", "exit 1", "signal"}, out \in Outputs}

\* ChromeDriver::verify_driver
verify_driver(driver_path, run) ==
    /\ pc = "idle"
    /\ driverPath' = driver_path
    /\ proc' = run
    /\ result' = verify(driver_path, run)
    /\ pc' = "done"
    /\ UNCHANGED <<os, arch, concurrentVars, httpLog, resolveVars, installVars>>

InitVerify ==
    /\ os \in {"linux", "windows"}
    /\ arch = "x86_64"
    /\ pc = "idle"
    /\ httpLog = <<>>
    /\ result = NoResult
    /\ NoResolve
    /\ NoInstall
    /\ NoVerify
    /\ NoCalls

NextVerify ==
    \E q \in {<<"inst", Exe>>, <<"inst", "sub", Exe>>}, run \in Runs : verify_driver(q, run)

SpecVerify == InitVerify /\ [][NextVerify]_vars

\* ----------------------------------------------------------------- pipeline

\* a variant that returns the path whatever verify_driver returned
install_result_unverified(driver_path, verified) == Ok(driver_path)

\* the end of download_and_install: `self.verify_driver(&driver_path).await?;
\* Ok(driver_path)`
install_result(driver_path, verified) ==
    IF verified.tag = "Err" THEN verified ELSE Ok(driver_path)

\* ChromeDriver::download_and_install up to the first await of
\* get_chromedriver_download_url, which is given driver_version
download_and_install(driver_version, install_path) ==
    /\ pc = "idle"
    /\ op' = "download_and_install"
    /\ arg' = driver_version
    /\ installPath' = install_path
    /\ UNCHANGED <<os, arch, concurrentVars, response, fs, tempPath, task, verifyVars>>
    /\ IF platform(os, arch).some
       THEN /\ httpLog' = Append(httpLog, CHROMEDRIVER_URLS_ENDPOINT)
            /\ pc' = "await_manifest"
            /\ UNCHANGED <<resolved, result>>
       ELSE /\ resolved' = Err(UnsupportedPlatform(os, arch))
            /\ result' = resolved'
            /\ pc' = "done"
            /\ UNCHANGED httpLog

\* the endpoint answers: get_chromedriver_download_url runs to its return,
\* `?` returns its error, and download_and_unzip runs up to the GET of
\* download_file, of the url that was resolved
install_manifest_response(resp, tempdir_ok) ==
    /\ pc = "await_manifest"
    /\ op = "download_and_install"
    /\ response' = resp
    /\ resolved' = resolve_response(arg, platform(os, arch).val, resp)
    /\ UNCHANGED <<os, arch, concurrentVars, op, arg, installPath, task, verifyVars>>
    /\ IF resolved'.tag = "Err"
       THEN /\ result' = resolved'
            /\ pc' = "done"
            /\ UNCHANGED <<fs, tempPath, httpLog>>
       ELSE IF ~tempdir_ok
       THEN /\ result' = Err(IoError(<<"temp">>))
            /\ pc' = "done"
            /\ UNCHANGED <<fs, tempPath, httpLog>>
       ELSE /\ tempPath' = TempDir
            /\ fs' = create_dir_all(put(fs, TempDir, Dir), parent(archive_path).val).fs
            /\ httpLog' = Append(httpLog, resolved'.val.url)
            /\ pc' = "await_archive"
            /\ UNCHANGED result

\* unzip_file resumes with the JoinHandle's value, download_and_unzip runs
\* to its return through find_driver_executable, `?` returns its error, and
\* verify_driver spawns the driver it found
install_unzip_joined ==
    /\ pc = "await_unzip"
    /\ op = "download_and_install"
    /\ task.tag \in {"Ok", "Err"}
    /\ UNCHANGED <<os, arch, concurrentVars, resolveVars, installPath, httpLog, task, proc>>
    /\ LET unzipped == unwrap(task)
           root == unzip_target(installPath, tempPath)
           matches == first_matches(fs, root, Exe)
       IN  IF unzipped.tag # "Ok" THEN return(unzipped, fs) /\ UNCHANGED driverPath
           ELSE IF ~exists(fs, root)
           THEN return(Err(IoError(root)), fs) /\ UNCHANGED driverPath
           ELSE IF matches = {}
           THEN return(Err(VerificationError("Could not find")), fs) /\ UNCHANGED driverPath
           ELSE \E found \in matches :
                    /\ driverPath' = found
                    /\ fs' = remove_dir_all(fs, TempDir)
                    /\ tempPath' = <<>>
                    /\ pc' = "await_driver"
                    /\ UNCHANGED result

\* what running the driver can give in the pipeline: not spawned, or exit
\* with a status and with "ChromeDriver", "chromedriver" or a byte that is
\* no UTF-8 as its output
InstallRuns ==
    {[spawned |-> FALSE]}
    \cup {[spawned |-> TRUE, status |-> st, stdout |-> out] :
            st \in {"exit 0", "exit 1"},
            out \in {Marker, <<99, 104, 114, 111, 109, 101, 100, 114, 105, 118, 101, 114>>,
                     <<255>>}}

\* the driver process ends (a directory cannot be spawned), verify_driver
\* and download_and_install run to their return
driver_exit(run) ==
    /\ pc = "await_driver"
    /\ run.spawned => fs[driverPath].kind = "file"
    /\ proc' = run
    /\ result' = install_result(driverPath, verify(driverPath, run))
    /\ pc' = "done"
    /\ UNCHANGED <<os, arch, concurrentVars, resolveVars, installVars, httpLog, driverPath>>

\* the driver versions download_and_install is called with: "1", "1.2"
InstallVersions == { <<"1">>, V1_2 }

\* what the endpoint answers in the pipeline: no response, a body that is no
\* JSON, and manifests with one entry "1.1", with and without downloads
InstallManifests ==
    { [transport |-> "failed"], [transport |-> "ok", json |-> "malformed"],
      [transport |-> "ok", json |-> "ok", versions |-> <<>>],
      [transport |-> "ok", json |-> "ok",
       versions |-> <<WireEntry(V1_1, NoChromedriver)>>],
      [transport |-> "ok", json |-> "ok",
       versions |-> <<WireEntry(V1_1, TwoPlatforms(V1_1))>>] }

InitPipeline ==
    /\ os \in {"linux", "windows"}
    /\ arch \in {"x86_64", "aarch64"}
    /\ pc = "idle"
    /\ httpLog = <<>>
    /\ result = NoResult
    /\ NoResolve
    /\ NoVerify
    /\ fs \in InitialDisks(Exe)
    /\ installPath = <<>>
    /\ tempPath = <<>>
    /\ task = NoResult
    /\ NoCalls

NextPipeline ==
    \/ \E v \in InstallVersions, d \in {<<"inst">>, TempRoot} : download_and_install(v, d)
    \/ \E r \in InstallManifests, ok \in BOOLEAN : install_manifest_response(r, ok)
    \/ pc = "await_archive" /\ \E r \in ArchiveResponses : archive_response(r)
    \/ pc = "await_unzip" /\ \E fault \in Faults(MaxEntries) : unzip_task(fault)
    \/ install_unzip_joined
    \/ \E run \in InstallRuns : driver_exit(run)

SpecPipeline == InitPipeline /\ [][NextPipeline]_vars

\* ------------------------------------------------------- concurrent installs

\* Two download_and_unzip calls on one disk. The extraction task of a call
\* runs on a thread of its own, so that its file operations interleave with
\* those of the other call: it is taken entry by entry here.

CallIds == {1, 2}

\* a variant in which every call is given the same temporary directory
TempDirOf_shared(self) == <<"tmp", "webdriver-manager-r">>

\* tempfile::Builder::tempdir: a directory of a random name that is created
\* anew, so that no two calls are given the same one
TempDirOf(self) ==
    IF self = 1 THEN <<"tmp", "webdriver-manager-r1">> ELSE <<"tmp", "webdriver-manager-r2">>

\* temp_path.join("driver.zip")
archive_path_of(self) == join(TempDirOf(self), <<"driver.zip">>)

\* a call that has not begun; archive is what the task has opened
IdleCall ==
    [pc |-> "idle", install_path |-> <<>>, temp |-> <<>>, resp |-> [outcome |-> "none"],
     archive |-> <<>>, next |-> 0, task |-> NoResult, result |-> NoResult]

\* the variables of the operations that are called one at a time
soloVars == <<pc, result, resolveVars, installPath, tempPath, task, verifyVars>>

\* the call returns r over the disk f: its TempDir is dropped
call_return(self, r, f) ==
    /\ fs' = remove_dir_all(f, TempDirOf(self))
    /\ calls' = [calls EXCEPT ![self].result = r, ![self].temp = <<>>, ![self].pc = "done"]

\* download_and_unzip up to the GET of download_file, for an install
\* directory that the other call was not given
call_download_and_unzip(self, install_path, tempdir_ok) ==
    /\ calls[self].pc = "idle"
    /\ \A other \in CallIds \ {self} : calls[other].install_path # install_path
    /\ UNCHANGED <<os, arch, soloVars, disk0>>
    /\ IF ~tempdir_ok
       THEN /\ calls' = [calls EXCEPT ![self].install_path = install_path,
                                      ![self].result = Err(IoError(<<"temp">>)),
                                      ![self].pc = "done"]
            /\ UNCHANGED <<fs, httpLog>>
       ELSE /\ calls' = [calls EXCEPT ![self].install_path = install_path,
                                      ![self].temp = TempDirOf(self),
                                      ![self].pc = "await_archive"]
            /\ fs' = create_dir_all(put(fs, TempDirOf(self), Dir),
                                    parent(archive_path_of(self)).val).fs
            /\ httpLog' = Append(httpLog, ArchiveUrl)

\* download_file from the answer of the GET, then unzip_file up to its await
call_archive_response(self, resp) ==
    /\ calls[self].pc = "await_archive"
    /\ UNCHANGED <<os, arch, soloVars, disk0, httpLog>>
    /\ LET dest == archive_path_of(self)
           answered == [calls EXCEPT ![self].resp = resp]
       IN  IF resp.outcome \in {"transport", "status"}
           THEN /\ fs' = remove_dir_all(fs, TempDirOf(self))
                /\ calls' = [answered EXCEPT
                                ![self].result = Err(NetworkError(resp.outcome)),
                                ![self].temp = <<>>,
                                ![self].pc = "done"]
           ELSE IF resp.outcome = "body"
           THEN /\ fs' = remove_dir_all(create_file(fs, dest, Bytes("")).fs, TempDirOf(self))
                /\ calls' = [answered EXCEPT ![self].result = Err(NetworkError("body")),
                                             ![self].temp = <<>>,
                                             ![self].pc = "done"]
           ELSE /\ fs' = create_file(fs, dest, resp.body).fs
                /\ calls' = [answered EXCEPT ![self].task = [tag |-> "spawned"],
                                             ![self].pc = "await_unzip"]

\* the blocking task of unzip_file begins: File::open, ZipArchive::new and
\* create_dir_all(extract_to)
call_unzip_open(self) ==
    /\ calls[self].pc = "await_unzip"
    /\ calls[self].task.tag = "spawned"
    /\ calls[self].next = 0
    /\ UNCHANGED <<os, arch, soloVars, disk0, httpLog>>
    /\ LET zip_path == archive_path_of(self)
           extract_to == unzip_target(calls[self].install_path, calls[self].temp)
           made == create_dir_all(fs, extract_to)
           failed(e) == /\ calls' = [calls EXCEPT ![self].task = Ok(Err(e))]
                        /\ UNCHANGED fs
       IN  IF ~(zip_path \in DOMAIN fs) THEN failed(IoError(zip_path))
           ELSE IF ~fs[zip_path].data.zip THEN failed(ZipError(zip_path))
           ELSE IF ~made.ok THEN failed(IoError(extract_to))
           ELSE /\ fs' = made.fs
                /\ calls' = [calls EXCEPT
                                ![self].archive = fs[zip_path].data.entries,
                                ![self].next = 1,
                                ![self].task = IF fs[zip_path].data.entries = <<>>
                                               THEN Ok(Ok("unit")) ELSE @]

\* one turn of the loop of the blocking task
call_unzip_entry(self) ==
    /\ calls[self].pc = "await_unzip"
    /\ calls[self].task.tag = "spawned"
    /\ calls[self].next >= 1
    /\ UNCHANGED <<os, arch, soloVars, disk0, httpLog>>
    /\ LET extract_to == unzip_target(calls[self].install_path, calls[self].temp)
           i == calls[self].next
           entry == calls[self].archive[i]
           r == extract_entry(fs, entry, extract_to, Unix)
       IN  /\ fs' = r.fs
           /\ calls' = [calls EXCEPT
                          ![self].next = i + 1,
                          ![self].task =
                              IF ~r.ok THEN Ok(Err(IoError(join(extract_to, entry.name))))
                              ELSE IF i = Len(calls[self].archive) THEN Ok(Ok("unit"))
                              ELSE @]

\* unzip_file resumes with the JoinHandle's value, and download_and_unzip
\* runs to its return through find_driver_executable
call_unzip_joined(self) ==
    /\ calls[self].pc = "await_unzip"
    /\ calls[self].task.tag \in {"Ok", "Err"}
    /\ UNCHANGED <<os, arch, soloVars, disk0, httpLog>>
    /\ LET unzipped == unwrap(calls[self].task)
           root == unzip_target(calls[self].install_path, calls[self].temp)
           matches == first_matches(fs, root, Exe)
       IN  IF unzipped.tag # "Ok" THEN call_return(self, unzipped, fs)
           ELSE IF ~exists(fs, root) THEN call_return(self, Err(IoError(root)), fs)
           ELSE IF matches = {}
           THEN call_return(self, Err(VerificationError("Could not find")), fs)
           ELSE \E found \in matches : call_return(self, Ok(found), fs)

\* the disk before the calls: the temp root, with nothing else or with a
\* directory inst/a that holds an executable of an earlier install
ConcurrentDisks(exe) ==
    { MkFs({<<TempRoot, Dir>>}),
      MkFs({<<TempRoot, Dir>>, <<(<<"inst">>), Dir>>, <<(<<"inst", "a">>), Dir>>,
            <<(<<"inst", "a", exe>>), File(Bytes("old"))>>}) }

\* the install directories of the calls: inst/a and inst/b, next to each
\* other, and inst, which holds both
ConcurrentInstallPaths == { <<"inst">>, <<"inst", "a">>, <<"inst", "b">> }

\* what the GET of the archive gives a call: a status that is no success,
\* or an archive with the executable, with another file, with the executable
\* in a directory sub/, or with the executable in a directory a/
ConcurrentResponses(exe) ==
    {[outcome |-> "status", body |-> Bytes("")], [outcome |-> "body", body |-> Bytes("")]}
    \cup {[outcome |-> "ok", body |-> ZipBytes(a)] :
            a \in { <<ZipEntry(<<exe>>, FALSE, Some("rwxr-xr-x"))>>,
                    <<ZipEntry(<<"LICENSE">>, FALSE, None)>>,
                    <<ZipEntry(<<"sub">>, TRUE, None),
                      ZipEntry(<<"sub", exe>>, FALSE, Some("rwxr-xr-x"))>>,
                    <<ZipEntry(<<"a", exe>>, FALSE, Some("rwxr-xr-x"))>> }}

InitConcurrent ==
    /\ os \in {"linux", "windows"}
    /\ arch = "x86_64"
    /\ pc = "idle"
    /\ httpLog = <<>>
    /\ result = NoResult
    /\ NoResolve
    /\ NoVerify
    /\ disk0 \in ConcurrentDisks(Exe)
    /\ fs = disk0
    /\ installPath = <<>>
    /\ tempPath = <<>>
    /\ task = NoResult
    /\ calls = [self \in CallIds |-> IdleCall]

NextConcurrent ==
    \E self \in CallIds :
        \/ \E d \in ConcurrentInstallPaths, ok \in BOOLEAN :
                call_download_and_unzip(self, d, ok)
        \/ calls[self].pc = "await_archive"
           /\ \E r \in ConcurrentResponses(Exe) : call_archive_response(self, r)
        \/ call_unzip_open(self)
        \/ call_unzip_entry(self)
        \/ call_unzip_joined(self)

SpecConcurrent == InitConcurrent /\ [][NextConcurrent]_vars

\* ------------------------------------------------- vocabulary of the claims

HasDot(s) == \E i \in 1..Len(s) : s[i] = Dot

\* p is s with its last dot-separated component removed
IsMajorLineOf(p, s) ==
    \E k \in 0..(Len(s) - 1) :
        /\ p = SubSeq(s, 1, k)
        /\ s[k + 1] = Dot
        /\ \A j \in (k + 2)..Len(s) : s[j] # Dot

MajorLineOf(s) == CHOOSE p \in {SubSeq(s, 1, k) : k \in 0..Len(s)} : IsMajorLineOf(p, s)

FiveSupported ==
    { <<"windows", "x86_64">>, <<"windows", "x86">>, <<"macos", "x86_64">>,
      <<"macos", "aarch64">>, <<"linux", "x86_64">> }

Supported == <<os, arch>> \in FiveSupported

\* the platform identifier of a supported build, as the specification lists it
PlatformId ==
    CASE <<os, arch>> = <<"windows", "x86_64">> -> "win64"
      [] <<os, arch>> = <<"windows", "x86">> -> "win32"
      [] <<os, arch>> = <<"macos", "x86_64">> -> "mac-x64"
      [] <<os, arch>> = <<"macos", "aarch64">> -> "mac-arm64"
      [] <<os, arch>> = <<"linux", "x86_64">> -> "linux64"

\* the endpoint answered with a JSON document that lists entries
GotManifest == pc = "done" /\ response.transport = "ok" /\ response.json = "ok"

Entries == response.versions

\* the indices of the entries whose version starts with prefix p
Matching(p) == {i \in 1..Len(Entries) : starts_with(Entries[i].version, p)}

MaxOf(S) == CHOOSE i \in S : \A j \in S : j <= i
MinOf(S) == CHOOSE i \in S : \A j \in S : i <= j

\* the positions of entry e's chromedriver downloads for platform p
PlatformDownloads(e, p) ==
    IF e.downloads.some /\ e.downloads.val.chromedriver.some
    THEN {k \in 1..Len(e.downloads.val.chromedriver.val) :
            e.downloads.val.chromedriver.val[k].platform = p}
    ELSE {}

UrlOf(e, p) == e.downloads.val.chromedriver.val[MinOf(PlatformDownloads(e, p))].url

\* every entry of the answer has a "downloads" key
AllHaveDownloads == \A i \in 1..Len(Entries) : Entries[i].downloads.some

IsErr(r, kind) == r.tag = "Err" /\ r.err.kind = kind

CharCode(c) ==
    CASE c = Dot -> 46 [] c = "0" -> 48 [] c = "1" -> 49 [] c = "2" -> 50
      [] c = "3" -> 51 [] c = "4" -> 52 [] c = "5" -> 53 [] c = "7" -> 55
      [] c = "8" -> 56

\* a < b in the order of str
LexLess(a, b) ==
    \E k \in 0..Len(a) :
        /\ k <= Len(b)
        /\ SubSeq(a, 1, k) = SubSeq(b, 1, k)
        /\ \/ k = Len(a) /\ k < Len(b)
           \/ k < Len(a) /\ k < Len(b) /\ CharCode(a[k + 1]) < CharCode(b[k + 1])

\* ------------------------------------------------------------------- claims

\* C1: with a browser version that has a '.', when entries match the
\* major-line prefix the version resolution returns (in its Ok value, or in
\* the DriverUrlNotFound it fails with) is the version of the matching entry
\* of the highest manifest index.
C1_LastMatchInManifestOrder ==
    (GotManifest /\ HasDot(arg) /\ Matching(MajorLineOf(arg)) # {}) =>
        LET selected == Entries[MaxOf(Matching(MajorLineOf(arg)))]
        IN  /\ resolved.tag = "Ok" => resolved.val.driver_version = selected.version
            /\ IsErr(resolved, "DriverUrlNotFound") =>
                    resolved.err.driver_version = selected.version
            /\ ~IsErr(resolved, "DriverVersionNotFound")

\* C1 witness: resolution succeeded with several matches, and the version it
\* returned is neither the first match nor the lexicographically largest one.
C1_Witness ==
    /\ GotManifest /\ HasDot(arg) /\ resolved.tag = "Ok"
    /\ LET M == Matching(MajorLineOf(arg))
       IN  /\ Cardinality(M) >= 2
           /\ Entries[MinOf(M)].version # resolved.val.driver_version
           /\ \E i \in M : LexLess(resolved.val.driver_version, Entries[i].version)

\* C2: get_download_url(driver_version), when driver_version is the version
\* of a manifest entry that has a download for the platform, returns the URL
\* of that entry (stated for answers where every entry has its "downloads"
\* key and no two entries have the same version).
C2_UrlOfTheNamedDriverVersion ==
    LET named == {i \in 1..Len(Entries) :
                    /\ Entries[i].version = arg
                    /\ PlatformDownloads(Entries[i], PlatformId) # {}}
        distinct == \A m, n \in 1..Len(Entries) :
                        Entries[m].version = Entries[n].version => m = n
    IN  (/\ GotManifest
         /\ op = "get_download_url"
         /\ Supported
         /\ AllHaveDownloads
         /\ distinct
         /\ named # {})
        =>  /\ result.tag = "Ok"
            /\ \E i \in named : result.val = UrlOf(Entries[i], PlatformId)

\* C3: a transport failure of the GET is a NetworkError, and a body that was
\* received but is not JSON of the manifest's shape is a JsonParseError.
C3_DistinctKindsForFetchFailures ==
    (pc = "done" /\ Supported) =>
        /\ response.transport = "failed" => IsErr(resolved, "NetworkError")
        /\ (response.transport = "ok" /\ (response.json # "ok" \/ ~AllHaveDownloads))
              => IsErr(resolved, "JsonParseError")

\* C4: when an entry matches the prefix and the last matching entry has no
\* downloads section, no chromedriver list or no download for the platform,
\* resolution fails with DriverUrlNotFound of that entry's version; and it
\* fails with DriverVersionNotFound exactly when no entry matches.
C4_UrlNotFoundOfTheSelectedEntry ==
    (GotManifest /\ Supported /\ HasDot(arg)) =>
        LET M == Matching(MajorLineOf(arg))
        IN  /\ (M # {} /\ PlatformDownloads(Entries[MaxOf(M)], PlatformId) = {}) =>
                  resolved = Err(DriverUrlNotFound(Entries[MaxOf(M)].version, PlatformId))
            /\ IsErr(resolved, "DriverVersionNotFound") <=> M = {}

\* C9: on an (os, arch) pair outside the five supported ones no HTTP request
\* is ever issued, and a call, whatever its version argument, has failed with
\* UnsupportedPlatform.
C9_UnsupportedPlatformBeforeAnyRequest ==
    ~Supported =>
        /\ httpLog = <<>>
        /\ pc # "idle" =>
              /\ pc = "done"
              /\ resolved = Err(UnsupportedPlatform(os, arch))
              /\ result = resolved

\* C9 witness: a call on an unsupported pair has returned.
C9_Witness ==
    /\ ~Supported /\ pc = "done" /\ HasDot(arg)
    /\ IsErr(result, "UnsupportedPlatform")

\* C10 as stated: on a supported platform a version without '.' fails with
\* the version parsing error, and does so ahead of the manifest fetch.
C10_ParsingErrorAheadOfFetch ==
    (pc = "done" /\ Supported /\ ~HasDot(arg)) =>
        /\ resolved = Err(BrowserVersionParsingError(arg))
        /\ httpLog = <<>>

\* C10 amended: the prefix is the version before its last '.' ("138.0.7204"
\* for "138.0.7204.158"): a successful resolution returns a version that
\* starts with it, and DriverVersionNotFound means no entry starts with it.
\* The prefix is derived after the manifest was fetched and decoded: a
\* version without '.' fails with BrowserVersionParsingError once that is
\* done, with NetworkError when the fetch or the decoding fails, and with
\* UnsupportedPlatform, no request issued, on an unsupported platform.
C10_PrefixDerivedAfterFetch ==
    pc = "done" =>
        /\ (arg = Version138 /\ resolved.tag = "Ok") =>
              starts_with(resolved.val.driver_version, Prefix138)
        /\ (HasDot(arg) /\ resolved.tag = "Ok") =>
              starts_with(resolved.val.driver_version, MajorLineOf(arg))
        /\ (HasDot(arg) /\ IsErr(resolved, "DriverVersionNotFound")) =>
              Matching(MajorLineOf(arg)) = {}
        /\ HasDot(arg) => ~IsErr(resolved, "BrowserVersionParsingError")
        /\ ~HasDot(arg) =>
              /\ ~Supported => IsErr(resolved, "UnsupportedPlatform") /\ httpLog = <<>>
              /\ (Supported /\ ~(GotManifest /\ AllHaveDownloads)) =>
                    IsErr(resolved, "NetworkError")
                    /\ httpLog = <<CHROMEDRIVER_URLS_ENDPOINT>>
              /\ (Supported /\ GotManifest /\ AllHaveDownloads) =>
                    resolved = Err(BrowserVersionParsingError(arg))
                    /\ httpLog = <<CHROMEDRIVER_URLS_ENDPOINT>>

\* C10 witness: a call with a version without '.' failed with the parsing
\* error, after the manifest was fetched and decoded.
C10_Witness ==
    /\ pc = "done" /\ Supported /\ arg = <<"1">>
    /\ resolved = Err(BrowserVersionParsingError(arg))
    /\ httpLog = <<CHROMEDRIVER_URLS_ENDPOINT>>
    /\ GotManifest /\ Len(Entries) > 0

\* the blocking task of unzip_file returned an error / panicked
TaskFailed == task.tag = "Ok" /\ task.val.tag = "Err"
TaskPanicked == task.tag = "Err"

\* a download_and_unzip call has returned (or panicked)
Installed == pc = "done" /\ installPath # <<>>

\* the regular files of the executable's name in the install directory tree
DriverFiles ==
    {q \in DOMAIN fs : /\ path_starts_with(q, installPath)
                       /\ fs[q].kind = "file"
                       /\ q[Len(q)] = Exe}

\* C5 as stated: a failure inside the extraction task, a panic of the task
\* included, reaches the caller of unzip_file as a returned Err.
C5_TaskFailureReturnedAsErr ==
    (Installed /\ (TaskFailed \/ TaskPanicked)) => result.tag = "Err"

\* C5 amended: an error the extraction task returns reaches the caller of
\* unzip_file and of download_and_unzip as that same Err; a panic of the task
\* is not converted: the caller panics, and it panics in no other case.
C5_TaskErrReturnedPanicPropagated ==
    Installed =>
        /\ TaskFailed => result = task.val
        /\ TaskPanicked => result.tag = "Panic"
        /\ result.tag = "Panic" => TaskPanicked

\* C5 witness: the task panicked after it had extracted a file, and the
\* caller panicked.
C5_Witness ==
    /\ Installed /\ TaskPanicked /\ result.tag = "Panic"
    /\ \E q \in DOMAIN fs : fs[q].data.label = "new"

\* C6: verify_driver returns Ok exactly when the driver was spawned, exited
\* with status zero, and its output is valid text that contains the marker;
\* a non-zero exit is a VerificationError whatever the output is, and so is
\* exit zero with text that lacks the marker.
C6_OkIffZeroExitAndMarker ==
    (pc = "done" /\ driverPath # <<>>) =>
        /\ result.tag = "Ok" <=>
              /\ proc.spawned
              /\ proc.status = "exit 0"
              /\ valid_utf8(proc.stdout, 1)
              /\ \E k \in 1..Len(proc.stdout) :
                    /\ k + Len(Marker) - 1 <= Len(proc.stdout)
                    /\ \A j \in 1..Len(Marker) : proc.stdout[k + j - 1] = Marker[j]
        /\ (proc.spawned /\ proc.status # "exit 0") => IsErr(result, "VerificationError")
        /\ (/\ proc.spawned
            /\ proc.status = "exit 0"
            /\ valid_utf8(proc.stdout, 1)
            /\ ~contains(proc.stdout, Marker)) => IsErr(result, "VerificationError")

\* C6 witness: the driver exited with a non-zero status and output that is
\* no valid text, and verification failed with VerificationError.
C6_Witness ==
    /\ pc = "done" /\ proc.spawned /\ proc.status = "exit 1"
    /\ ~valid_utf8(proc.stdout, 1)
    /\ IsErr(result, "VerificationError")

\* C7: the path download_and_unzip returns lies under the install directory
\* of the call and not under the temporary directory of the call.
C7_PathUnderInstallDirectory ==
    (Installed /\ result.tag = "Ok") =>
        /\ path_starts_with(result.val, installPath)
        /\ ~path_starts_with(result.val, TempDir)

\* C7 witness: the install directory is the temp root, where the temporary
\* directory of the call is created too, executables of an earlier install
\* are there, and the call returns the path of the file it extracted.
C7_Witness ==
    /\ Installed /\ result.tag = "Ok"
    /\ installPath = TempRoot
    /\ result.val = <<"tmp", "sub", Exe>>
    /\ <<"tmp", Exe>> \in DOMAIN fs
    /\ fs[<<"tmp", Exe>>].data.label = "old"

\* C8: the search returns only a regular file of the executable's name, and
\* the call fails with the verification error when the install directory
\* tree holds no such file after the extraction.
C8_SearchReturnsARegularFile ==
    (Installed /\ task = Ok(Ok("unit"))) =>
        /\ result.tag = "Ok" => result.val \in DriverFiles
        /\ DriverFiles = {} => IsErr(result, "VerificationError")

\* the name climbs above its start: at some point it has more ".." than
\* other components
Climbs(name) ==
    \E k \in 1..Len(name) :
        Cardinality({i \in 1..k : name[i] = ".."})
            > Cardinality({i \in 1..k : name[i] # ".."})

\* the entry's name cannot be safely resolved inside a target directory
Unsafe(entry) == entry.absolute \/ Climbs(entry.name)

NoFault == [at |-> 0, kind |-> "none"]

\* C11: in a step of the extraction task of unzip_file nothing is removed,
\* and every path it creates or writes lies inside the target directory (the
\* target itself and the missing directories above it, which are created
\* before the first entry is read, aside). An entry whose name is absolute or
\* climbs above the target is skipped without error and the extraction
\* continues: no IoError is about such an entry, and the task leaves what it
\* leaves for the archive without these entries.
C11_ExtractionStaysInsideTarget ==
    [][ (pc = "await_unzip" /\ task.tag = "spawned") =>
        LET target == installPath
            archive == fs[archive_path].data.entries
            touched == {q \in DOMAIN fs' : q \notin DOMAIN fs \/ fs'[q] # fs[q]}
            kept == SelectSeq(archive, LAMBDA e : ~Unsafe(e))
            pruned == blocking_task([fs EXCEPT ![archive_path].data.entries = kept],
                                    archive_path, target, Unix, NoFault)
            full == blocking_task(fs, archive_path, target, Unix, NoFault)
            same(f, g) == /\ DOMAIN f = DOMAIN g
                          /\ \A q \in DOMAIN f \ {archive_path} : f[q] = g[q]
        IN  /\ DOMAIN fs \subseteq DOMAIN fs'
            /\ \A q \in touched :
                  \/ path_starts_with(q, target)
                  \/ /\ path_starts_with(target, q)
                     /\ q \notin DOMAIN fs
                     /\ fs'[q] = Dir
            /\ \A q \in DOMAIN fs' : \A i \in 1..Len(q) : q[i] # ".."
            /\ (task'.tag = "Ok" /\ IsErr(task'.val, "IoError")) =>
                  \/ task'.val.err.path \in {archive_path, target}
                  \/ \E i \in 1..Len(archive) :
                        /\ ~Unsafe(archive[i])
                        /\ task'.val.err.path = join(target, archive[i].name)
            /\ full.join = pruned.join
            /\ same(full.fs, pruned.fs)
            /\ task' = Ok(Ok("unit")) => same(fs', pruned.fs)
      ]_vars

\* C11 witness: the task ran on an archive whose first entry climbs above
\* the target and whose second entry has a ".." that stays inside; it
\* returned Ok, the first entry left nothing above the target and the second
\* was extracted into the target.
C11_Witness ==
    /\ pc = "await_unzip" /\ task = Ok(Ok("unit"))
    /\ installPath = <<"inst">>
    /\ LET archive == fs[archive_path].data.entries
       IN  /\ Len(archive) = 2
           /\ archive[1].name = <<"..", Exe>>
           /\ archive[2].name = <<"sub", "..", "LICENSE">>
    /\ <<Exe>> \notin DOMAIN fs
    /\ <<"inst", "sub">> \in DOMAIN fs
    /\ <<"inst", "LICENSE">> \in DOMAIN fs
    /\ fs[<<"inst", "LICENSE">>].data.label = "new"

\* the version is made of non-empty components separated by single dots
WellFormed(s) ==
    /\ s # <<>>
    /\ s[1] # Dot /\ s[Len(s)] # Dot
    /\ \A i \in 1..(Len(s) - 1) : ~(s[i] = Dot /\ s[i + 1] = Dot)

\* C14: when resolution succeeds for a well-formed browser version, the
\* selected driver version with its last component removed equals the
\* browser version with its last component removed.
C14_SelectedVersionOfSameMajorLine ==
    (pc = "done" /\ resolved.tag = "Ok" /\ WellFormed(arg)) =>
        /\ HasDot(resolved.val.driver_version)
        /\ MajorLineOf(resolved.val.driver_version) = MajorLineOf(arg)

\* C15: the file at the path download_and_unzip returns was written by the
\* extraction of this call; a file that was in the install directory before
\* the call, and that the extraction did not write, is never returned.
C15_ReturnedFileWrittenByThisCall ==
    (/\ Installed
     /\ result.tag = "Ok"
     /\ result.val \in DOMAIN fs
     /\ fs[result.val].kind = "file") =>
        fs[result.val].data.label = "new"

\* the driver ran, exited with status zero and printed text with the marker
DriverVerified ==
    /\ proc.spawned
    /\ proc.status = "exit 0"
    /\ valid_utf8(proc.stdout, 1)
    /\ \E k \in 1..Len(proc.stdout) :
          /\ k + Len(Marker) - 1 <= Len(proc.stdout)
          /\ \A j \in 1..Len(Marker) : proc.stdout[k + j - 1] = Marker[j]

\* C13, the order of the steps of one download_and_install call: at most
\* one GET of the manifest and then at most one GET of the archive, of the
\* url that was resolved; extraction only of an archive that was downloaded;
\* search and verification only after the extraction returned Ok; the first
\* failure is what the call returns, with no later step taken.
C13_StepsInOrder ==
    /\ Len(httpLog) <= 2
    /\ Len(httpLog) >= 1 => httpLog[1] = CHROMEDRIVER_URLS_ENDPOINT
    /\ Len(httpLog) = 2 => resolved.tag = "Ok" /\ httpLog[2] = resolved.val.url
    /\ task.tag # "none" => Len(httpLog) = 2
    /\ pc = "await_unzip" => archive_path \in DOMAIN fs
    /\ driverPath # <<>> => task = Ok(Ok("unit")) /\ path_starts_with(driverPath, installPath)
    /\ proc.spawned => driverPath # <<>>
    /\ pc # "done" => result = NoResult
    /\ pc = "done" =>
          /\ resolved.tag = "Err" =>
                result = resolved /\ Len(httpLog) <= 1 /\ task.tag = "none"
          /\ task.tag = "none" => result.tag = "Err"
          /\ TaskFailed => result = task.val
          /\ TaskPanicked => result.tag = "Panic"
          /\ task # Ok(Ok("unit")) => driverPath = <<>>
          /\ driverPath = <<>> => result.tag # "Ok"
          /\ driverPath # <<>> =>
                IF DriverVerified THEN result = Ok(driverPath)
                ELSE result.tag = "Err" /\ result.err.kind \in
                        {"CommandExecutionError", "CommandOutputParsingError",
                         "VerificationError"}

\* C13: the steps of one download_and_install call happen in order, each at
\* most once and each only after the one before succeeded, and the first
\* failure is returned. While the extraction has not started the call
\* changes nothing but its own temporary directory, which is gone when the
\* call returns: after a failed download the install directory holds what it
\* held before the call. Ok(path) is returned only for a path verify_driver
\* succeeded on.
C13_SequentialFirstFailureReturned ==
    /\ []C13_StepsInOrder
    /\ [][ /\ task'.tag \in {"none", "spawned"} =>
                /\ \A q \in (DOMAIN fs \cup DOMAIN fs') :
                      (q \notin DOMAIN fs \/ q \notin DOMAIN fs' \/ fs'[q] # fs[q]) =>
                          path_starts_with(q, TempDir)
                /\ pc' = "done" => \A q \in DOMAIN fs' : ~path_starts_with(q, TempDir)
           /\ task.tag \notin {"none", "spawned"} => task' = task
           /\ driverPath # <<>> => (driverPath' = driverPath /\ fs' = fs)
           /\ Len(httpLog') >= Len(httpLog)
           /\ pc = "done" => pc' = "done"
         ]_vars

\* C13 witness: a call went through every step and returned the path of the
\* driver it extracted, over a disk that had an old driver elsewhere.
C13_Witness ==
    /\ op = "download_and_install" /\ pc = "done"
    /\ installPath = <<"inst">>
    /\ result = Ok(<<"inst", Exe>>)
    /\ fs[<<"inst", Exe>>].data.label = "new"
    /\ <<"inst", "sub", Exe>> \in DOMAIN fs
    /\ DriverVerified
    /\ Len(httpLog) = 2

\* what a concurrent call would return when it runs alone on the disk as it
\* was before the calls, for the install directory and the answer of the
\* GET it was given
AloneResults(self) ==
    LET c == calls[self]
        root == c.install_path
        zip_path == archive_path_of(self)
        fetched == create_file(create_dir_all(disk0, TempDirOf(self)).fs,
                               zip_path, c.resp.body).fs
        unzipped == blocking_task(fetched, zip_path, root, Unix, NoFault)
        matches == first_matches(unzipped.fs, root, Exe)
    IN  IF c.resp.outcome = "none" THEN {Err(IoError(<<"temp">>))}
        ELSE IF c.resp.outcome # "ok" THEN {Err(NetworkError(c.resp.outcome))}
        ELSE IF unzipped.join # Ok(Ok("unit")) THEN {unzipped.join.val}
        ELSE IF matches = {} THEN {Err(VerificationError("Could not find"))}
        ELSE {Ok(found) : found \in matches}

\* neither path is the other or inside the other
Apart(d, e) == ~path_starts_with(d, e) /\ ~path_starts_with(e, d)

\* the install directories the calls were given so far are apart from each
\* other and from the system's temporary directory
InstallDirsApart ==
    \A i \in CallIds :
        calls[i].install_path # <<>> =>
            /\ Apart(calls[i].install_path, TempRoot)
            /\ \A j \in CallIds \ {i} :
                  calls[j].install_path # <<>> =>
                      Apart(calls[i].install_path, calls[j].install_path)

\* the temporary directories of the calls are apart, and a call that has
\* returned has returned what it returns when it runs alone
CallsIndependent ==
    /\ \A i, j \in CallIds :
          (i # j /\ calls[i].temp # <<>> /\ calls[j].temp # <<>>) =>
              Apart(calls[i].temp, calls[j].temp)
    /\ \A i \in CallIds :
          calls[i].pc = "done" => calls[i].result \in AloneResults(i)

\* C12 as stated: two concurrent calls with different install directories
\* have temporary directories of their own and each returns what it returns
\* when it runs alone.
C12_DifferentDirectoriesNoInterference ==
    (\A i \in CallIds : calls[i].install_path # calls[3 - i].install_path) =>
        CallsIndependent

\* C12 amended: for install directories that are apart (neither is inside
\* the other, and neither holds the system's temporary directory) the calls
\* have temporary directories of their own, each returns what it returns
\* when it runs alone, and a step of a call creates, writes or removes only
\* paths under its own temporary directory or under its own install
\* directory, and the missing directories above its install directory.
C12_ApartDirectoriesNoInterference ==
    /\ [](InstallDirsApart => CallsIndependent)
    /\ [][ InstallDirsApart' =>
             \A i \in CallIds :
                 calls'[i] # calls[i] =>
                     \A q \in (DOMAIN fs \cup DOMAIN fs') :
                         (q \notin DOMAIN fs \/ q \notin DOMAIN fs' \/ fs'[q] # fs[q]) =>
                             \/ path_starts_with(q, TempDirOf(i))
                             \/ path_starts_with(q, calls'[i].install_path)
                             \/ /\ path_starts_with(calls'[i].install_path, q)
                                /\ q \notin DOMAIN fs
                                /\ fs'[q] = Dir
         ]_vars

\* C12 witness: two calls whose install directories are next to each other,
\* under a directory that was missing, have both extracted their archive,
\* one of them has returned the driver it extracted and the other is still
\* running.
C12_Witness ==
    /\ InstallDirsApart
    /\ disk0 = MkFs({<<TempRoot, Dir>>})
    /\ calls[1].pc = "done" /\ calls[1].result = Ok(<<"inst", "a", "sub", Exe>>)
    /\ calls[2].pc = "await_unzip" /\ calls[2].next = 2
    /\ calls[2].install_path = <<"inst", "b">>
    /\ <<"inst", "b", Exe>> \in DOMAIN fs

====
